---------------------------- MODULE Spec2Model ----------------------------
(***************************************************************************)
(* RNSE v0.74 audit suite: the per-axis accretion transform, the point     *)
(* cloud assembly, the rotation-curve analysis and the audit ledger of     *)
(* rnse_test_suite.py, and the reference digest of rnse_publish.py.        *)
(*                                                                         *)
(* Numbers.  Python floats are modelled by exact arithmetic:               *)
(*   - a primary sample x is held as its deviation x - 0.5, an integer     *)
(*     number of ticks, one tick being 1e-9 / EpsilonTicks;                *)
(*   - a coordinate is the exact quotient num / den, in units when         *)
(*     unit = "one" and in ticks when unit = "tick";                       *)
(*   - the analysis works on a fixed-point grid (integers), square roots   *)
(*     rounded down to the grid, means and ratios kept as exact quotients  *)
(*     [num, den]; 0/0 is NaN, as numpy's mean of an empty array is.       *)
(* Infinite and NaN inputs are outside the model.                          *)
(***************************************************************************)
EXTENDS Integers, Sequences, FiniteSets, TLC

(* ------------------------------ bounds -------------------------------- *)
\* largest particle count of a drawn point cloud
MaxParticles == 4
\* largest particle count of a single-axis run
MaxAxisParticles == 3
\* largest particle count of a three-axis run
MaxRunParticles == 2
\* largest particle count of a three-axis run on a near-contract generator
MaxCloudParticles == 2
\* largest particle count of an execution of the suite
MaxSuiteParticles == 2
\* largest wall-clock reading
MaxClock == 2
\* largest number of calls a caller makes on one ledger
MaxOps == 4

(* --------------------------- number helpers --------------------------- *)
Abs(n) == IF n < 0 THEN -n ELSE n

Range(s) == {s[i] : i \in DOMAIN s}

RECURSIVE SumOver(_, _)
SumOver(f, S) ==
    IF S = {} THEN 0
    ELSE LET i == CHOOSE j \in S : TRUE IN f[i] + SumOver(f, S \ {i})

RECURSIVE ISqrtBetween(_, _, _)
\* the integer k with k*k <= n < (k+1)*(k+1), searched in lo..hi
ISqrtBetween(n, lo, hi) ==
    IF lo = hi THEN lo
    ELSE LET mid == (lo + hi + 1) \div 2
         IN IF mid * mid <= n THEN ISqrtBetween(n, mid, hi)
            ELSE ISqrtBetween(n, lo, mid - 1)

ISqrt(n) == ISqrtBetween(n, 0, 46340)

Rat(n, d) == [num |-> n, den |-> d]
NaN == Rat(0, 0)
IsNaN(a) == a.den = 0
\* a < b and a > b of Python floats: False whenever a NaN is compared
RatLT(a, b) == ~IsNaN(a) /\ ~IsNaN(b) /\ a.num * b.den < b.num * a.den
RatGT(a, b) == RatLT(b, a)

(* --------------------- MultiThreadRNSE.analyze_rotation_curve --------- *)
\* r = np.linalg.norm(coords, axis=1)
Radius(cloud) ==
    [i \in DOMAIN cloud |->
        ISqrt(cloud[i][1] * cloud[i][1] + cloud[i][2] * cloud[i][2]
              + cloud[i][3] * cloud[i][3])]

\* twice np.gradient(coords, axis=0): one-sided differences at the two ends,
\* central differences inside
Gradient2(cloud) ==
    LET n == Len(cloud)
    IN [i \in 1..n |->
          [k \in 1..3 |->
              IF i = 1 THEN 2 * (cloud[2][k] - cloud[1][k])
              ELSE IF i = n THEN 2 * (cloud[n][k] - cloud[n - 1][k])
              ELSE cloud[i + 1][k] - cloud[i - 1][k]]]

\* v_mag = np.linalg.norm(vel, axis=1) * 10.0
VMag(cloud) ==
    LET g == Gradient2(cloud)
    IN [i \in DOMAIN cloud |->
          5 * ISqrt(g[i][1] * g[i][1] + g[i][2] * g[i][2] + g[i][3] * g[i][3])]

\* the k-th smallest element of r
KthSmallest(r, k) ==
    CHOOSE v \in Range(r) :
        /\ Cardinality({j \in DOMAIN r : r[j] < v}) < k
        /\ Cardinality({j \in DOMAIN r : r[j] <= v}) >= k

\* twice np.median(r)
Median2(r) ==
    LET n == Len(r)
    IN IF n % 2 = 1 THEN 2 * KthSmallest(r, (n + 1) \div 2)
       ELSE KthSmallest(r, n \div 2) + KthSmallest(r, n \div 2 + 1)

InnerMaskLE(r, med2) == {i \in DOMAIN r : 2 * r[i] <= med2}
\* inner_mask = r < median_r
InnerMask(r, med2) == {i \in DOMAIN r : 2 * r[i] < med2}
\* outer_mask = r > median_r
OuterMask(r, med2) == {i \in DOMAIN r : 2 * r[i] > med2}

\* np.mean(v[mask]): 0/0, NaN, on an empty selection
MeanOver(v, S) == Rat(SumOver(v, S), Cardinality(S))

\* np.std(v[mask]): sqrt(mean(|v - mean|^2)), NaN on an empty selection
StdOver(v, S) ==
    LET n == Cardinality(S)
        sq == [i \in DOMAIN v |-> v[i] * v[i]]
        s == SumOver(v, S)
    IN Rat(ISqrt(n * SumOver(sq, S) - s * s), n)

\* velocity_drop = 100.0 * (1.0 - outer_v / inner_v) if inner_v > 0 else 0.0
VelocityDrop(inner_v, outer_v) ==
    IF RatGT(inner_v, Rat(0, 1))
    THEN IF IsNaN(outer_v) THEN NaN
         ELSE Rat(100 * (inner_v.num * outer_v.den - outer_v.num * inner_v.den),
                  inner_v.num * outer_v.den)
    ELSE Rat(0, 1)

InterpretationLE(drop) ==
    IF ~RatGT(drop, Rat(5, 1))
    THEN "FLAT (matches Dark Matter signature)"
    ELSE IF RatLT(drop, Rat(20, 1)) THEN "MILD DECLINE"
    ELSE "STEEP DECLINE (Keplerian)"
\* the interpretation label of a velocity drop
Interpretation(drop) ==
    IF RatLT(drop, Rat(5, 1)) THEN "FLAT (matches Dark Matter signature)"
    ELSE IF RatLT(drop, Rat(20, 1)) THEN "MILD DECLINE"
    ELSE "STEEP DECLINE (Keplerian)"

MinOver(r, S) == CHOOSE m \in {r[i] : i \in S} : \A i \in S : m <= r[i]
MaxOver(r, S) == CHOOSE m \in {r[i] : i \in S} : \A i \in S : m >= r[i]

NoResult == [tag |-> "none"]
NoMasks == [inner |-> {}, outer |-> {}]

\* the outcome of analyze_rotation_curve(coords, mass): the exception it ends
\* in ("" when it returns), the RotationCurveResult, and the two masks
AnalyzeRotationCurve(cloud, weights) ==
    IF Len(cloud) < 2
    THEN \* np.gradient needs two rows
         [exc |-> "ValueError", result |-> NoResult, masks |-> NoMasks]
    ELSE LET r == Radius(cloud)
             v_mag == VMag(cloud)
             med2 == Median2(r)
             inner_mask == InnerMask(r, med2)
             outer_mask == OuterMask(r, med2)
             inner_v == MeanOver(v_mag, inner_mask)
             outer_v == MeanOver(v_mag, outer_mask)
             velocity_drop == VelocityDrop(inner_v, outer_v)
             masks == [inner |-> inner_mask, outer |-> outer_mask]
         IN IF inner_mask = {} \/ outer_mask = {}
            THEN \* np.min / np.max of an empty selection
                 [exc |-> "ValueError", result |-> NoResult, masks |-> masks]
            ELSE [exc |-> "",
                  result |->
                    [tag |-> "RotationCurveResult",
                     inner_radius |-> MinOver(r, inner_mask),
                     outer_radius |-> MaxOver(r, outer_mask),
                     median_radius |-> Rat(med2, 2),
                     inner_velocity |-> inner_v,
                     outer_velocity |-> outer_v,
                     velocity_drop_percent |-> velocity_drop,
                     inner_v_stddev |-> StdOver(v_mag, inner_mask),
                     outer_v_stddev |-> StdOver(v_mag, outer_mask),
                     total_particles |-> Len(cloud),
                     mean_complexity |-> MeanOver(weights, DOMAIN weights),
                     interpretation |-> Interpretation(velocity_drop)],
                  masks |-> masks]


(* ------------------------ MultiThreadRNSE.__init__ -------------------- *)
\* A Python int seed is held as five limbs of 16 bits, least significant
\* first: limbs 1..4 are the 64 bits of a uint64, limb 5 is what lies above.
LimbBase == 2^16
\* the offset between the seeds of two neighbouring axes, 0x1000
AxisOffset == 4096

\* seed + k for 0 <= k < LimbBase, carries propagated, nothing cut off
AddSmall(seed, k) ==
    LET s1 == seed[1] + k
        s2 == seed[2] + (s1 \div LimbBase)
        s3 == seed[3] + (s2 \div LimbBase)
        s4 == seed[4] + (s3 \div LimbBase)
        s5 == seed[5] + (s4 \div LimbBase)
    IN <<s1 % LimbBase, s2 % LimbBase, s3 % LimbBase, s4 % LimbBase, s5>>

\* self.seeds = [config.rng_seed + i * 0x1000 for i in range(config.threads)]
AxisSeeds(cfg) ==
    [i \in 1..cfg.threads |-> AddSmall(cfg.rng_seed, (i - 1) * AxisOffset)]

(* --------------------------- MultiThreadRNSE.run ---------------------- *)
\* 1e-9 in ticks
EpsilonTicks == 2
\* 1.0 in ticks
TicksPerUnit == 2000000000

IsRecord(line) == line.kind = "record"

\* the exception parsing the lines ends in, "" when every line parses:
\* json.loads fails on a line that is no JSON, data["x"] on a missing key
ParseError(lines) ==
    IF \A j \in DOMAIN lines : IsRecord(lines[j]) THEN ""
    ELSE LET first == CHOOSE j \in DOMAIN lines :
                          /\ ~IsRecord(lines[j])
                          /\ \A k \in 1..(j - 1) : IsRecord(lines[k])
         IN IF lines[first].kind = "not_json" THEN "JSONDecodeError"
            ELSE "KeyError"

RECURSIVE CumSum(_, _)
\* trajectory = np.cumsum(raw_signal), up to index i
CumSum(raw, i) == IF i = 0 THEN 0 ELSE CumSum(raw, i - 1) + raw[i]

MaxAbs(t) == CHOOSE m \in {Abs(t[i]) : i \in DOMAIN t} :
                 \A i \in DOMAIN t : m >= Abs(t[i])

AccretionNoGuard(raw, scale) ==
    LET trajectory == [i \in DOMAIN raw |-> CumSum(raw, i)]
        peak == MaxAbs(trajectory)
    IN [peak |-> peak, max_val |-> peak, unit |-> "one",
        arr |-> [i \in DOMAIN raw |->
                   [num |-> trajectory[i] * scale, den |-> peak, unit |-> "one"]]]
\* The accretion transform of one axis, raw[i] = x[i] - 0.5 in ticks:
\* cumulative sum, then rescaling by scale / max_val, max_val replaced by 1.0
\* when it is below 1e-9.  max_val is the divisor used, in ticks or ("one")
\* in units.
Accretion(raw, scale) ==
    LET trajectory == [i \in DOMAIN raw |-> CumSum(raw, i)]
        peak == MaxAbs(trajectory)
    IN IF peak < EpsilonTicks
       THEN [peak |-> peak, max_val |-> 1, unit |-> "tick",
             arr |-> [i \in DOMAIN raw |->
                        [num |-> trajectory[i] * scale, den |-> 1, unit |-> "tick"]]]
       ELSE [peak |-> peak, max_val |-> peak, unit |-> "one",
             arr |-> [i \in DOMAIN raw |->
                        [num |-> trajectory[i] * scale, den |-> peak, unit |-> "one"]]]

\* a coordinate as the point cloud stores it, rounded down to the grid of the
\* analysis (one grid step is one unit)
ToGrid(c) ==
    IF c.unit = "one" THEN c.num \div c.den
    ELSE (c.num \div c.den) \div TicksPerUnit

\* coords = np.column_stack(dims)
ColumnStack(ds) ==
    [i \in 1..Len(ds[1]) |-> [k \in 1..Len(ds) |-> ToGrid(ds[k][i])]]

NoAxis == [peak |-> 0, max_val |-> 1, unit |-> "none", raw |-> <<>>]


(* -------------------------------- AuditLog ---------------------------- *)
\* JSON text is modelled as the sequence of its tokens, every token a string.
RECURSIVE GCD(_, _)
GCD(a, b) == IF b = 0 THEN a ELSE GCD(b, a % b)

\* a float: the quotient in lowest terms, or NaN
JsonFloat(q) ==
    IF IsNaN(q) THEN <<"NaN">>
    ELSE LET g == GCD(Abs(q.num), q.den)
         IN <<ToString(q.num \div g), "/", ToString(q.den \div g)>>

\* a Python int held as limbs, most significant limb first
JsonBigInt(limbs) == [i \in 1..5 |-> ToString(limbs[6 - i])]

HexDigits == <<"0", "1", "2", "3", "4", "5", "6", "7", "8", "9",
               "a", "b", "c", "d", "e", "f">>

RECURSIVE HexOf(_, _)
\* the hexadecimal digits of limbs 1..k, most significant first, without
\* leading zeros
HexOf(limbs, k) ==
    IF k = 0 THEN <<>>
    ELSE LET l == limbs[k]
             four == <<HexDigits[(l \div 4096) + 1], HexDigits[((l \div 256) % 16) + 1],
                       HexDigits[((l \div 16) % 16) + 1], HexDigits[(l % 16) + 1]>>
             high == \A j \in (k + 1)..5 : limbs[j] = 0
             first == IF \E d \in 1..4 : four[d] # "0"
                      THEN CHOOSE d \in 1..4 : four[d] # "0" /\ \A e \in 1..(d - 1) : four[e] = "0"
                      ELSE 5
         IN (IF high THEN SubSeq(four, first, 4) ELSE four) \o HexOf(limbs, k - 1)

\* hex(seed)
Hex(limbs) ==
    LET digits == HexOf(limbs, 5)
    IN <<"0x">> \o (IF digits = <<>> THEN <<"0">> ELSE digits)

\* AuditMetadata.to_dict, serialized
MetadataJson(m) ==
    <<"{", "test", ":", m.test_name, ",", "timestamp", ":", ToString(m.timestamp),
      ",", "git_hash", ":", m.git_hash, ",", "seed", ":">> \o Hex(m.seed)
        \o <<",", "particle_count", ":", ToString(m.particle_count), "}">>

\* SimulationConfig.__dict__, serialized
ConfigJson(cfg) ==
    <<"{", "n_particles", ":", ToString(cfg.n_particles), ",", "scale", ":",
      ToString(cfg.scale), ".0", ",", "threads", ":", ToString(cfg.threads), ",",
      "coupling", ":", ToString(cfg.coupling), "e-2", ",", "rng_seed", ":">>
        \o JsonBigInt(cfg.rng_seed) \o <<"}">>

\* RotationCurveResult.to_dict, serialized
ResultJson(res) ==
    <<"{", "inner_radius", ":", ToString(res.inner_radius), ".0", ",",
      "outer_radius", ":", ToString(res.outer_radius), ".0", ",",
      "median_radius", ":">> \o JsonFloat(res.median_radius)
        \o <<",", "inner_velocity", ":">> \o JsonFloat(res.inner_velocity)
        \o <<",", "outer_velocity", ":">> \o JsonFloat(res.outer_velocity)
        \o <<",", "velocity_drop_percent", ":">> \o JsonFloat(res.velocity_drop_percent)
        \o <<",", "inner_v_stddev", ":">> \o JsonFloat(res.inner_v_stddev)
        \o <<",", "outer_v_stddev", ":">> \o JsonFloat(res.outer_v_stddev)
        \o <<",", "total_particles", ":", ToString(res.total_particles)>>
        \o <<",", "mean_complexity", ":">> \o JsonFloat(res.mean_complexity)
        \o <<",", "interpretation", ":", res.interpretation, "}">>

\* The value of an entry is what add_result was handed: an int, the dict a
\* to_dict call built, or a reference to the __dict__ of the SimulationConfig,
\* which the ledger stores without copying it.
IntValue(n) == [kind |-> "int", v |-> n, res |-> NoResult]
DictValue(res) == [kind |-> "dict", v |-> 0, res |-> res]
ConfigRef == [kind |-> "ref", v |-> 0, res |-> NoResult]

\* the serialized value of an entry, the reference followed to the object
ValueJson(val, cfg) ==
    IF val.kind = "ref" THEN ConfigJson(cfg)
    ELSE IF val.kind = "int" THEN <<ToString(val.v)>>
    ELSE ResultJson(val.res)

RECURSIVE EntriesKeysJson(_, _, _)
EntriesKeysJson(es, cfg, k) ==
    IF k > Len(es) THEN <<>>
    ELSE (IF k > 1 THEN <<",">> ELSE <<>>)
           \o <<"{", "key", ":", es[k].key, ",", "timestamp", ":",
                ToString(es[k].timestamp), "}">>
           \o EntriesKeysJson(es, cfg, k + 1)

RECURSIVE EntriesJson(_, _, _)
\* the entries from the k-th on, serialized
EntriesJson(es, cfg, k) ==
    IF k > Len(es) THEN <<>>
    ELSE (IF k > 1 THEN <<",">> ELSE <<>>)
           \o <<"{", "key", ":", es[k].key, ",", "value", ":">>
           \o ValueJson(es[k].value, cfg)
           \o <<",", "timestamp", ":", ToString(es[k].timestamp), "}">>
           \o EntriesJson(es, cfg, k + 1)

AuditBlobKeysOnly(m, es, cfg) ==
    <<"{", "metadata", ":">> \o MetadataJson(m) \o <<",", "entries", ":", "[">>
        \o EntriesKeysJson(es, cfg, 1) \o <<"]", "}">>
\* json.dumps({"metadata": ..., "entries": ...}, indent=2)
AuditBlob(m, es, cfg) ==
    <<"{", "metadata", ":">> \o MetadataJson(m) \o <<",", "entries", ":", "[">>
        \o EntriesJson(es, cfg, 1) \o <<"]", "}">>

\* hashlib.sha256(blob).hexdigest(), taken as free of collisions: the digest
\* stands for the blob it was computed from
Sha256(blob) == [sha256 |-> blob]
NoDigest == Sha256(<<>>)

\* AuditLog.add_result: the entries after the call
AddResultTo(es, key, value, now) ==
    Append(es, [key |-> key, value |-> value, timestamp |-> now])

FinalizeChained(ledger, cfg) ==
    [ledger EXCEPT !.digest_sha256 =
        Sha256(AuditBlob(ledger.metadata, ledger.entries, cfg)
                 \o ledger.digest_sha256.sha256)]
\* AuditLog.finalize: the ledger after the call, its digest the value returned
Finalize(ledger, cfg) ==
    [ledger EXCEPT !.digest_sha256 =
        Sha256(AuditBlob(ledger.metadata, ledger.entries, cfg))]

\* the entries as a reader of the ledger sees them
Observed(es, cfg) ==
    [k \in DOMAIN es |->
        [key |-> es[k].key, value |-> ValueJson(es[k].value, cfg),
         timestamp |-> es[k].timestamp]]

(* ------------------------------- state -------------------------------- *)
VARIABLES
    pc,        \* position of the running operation
    exc,       \* the exception the operation ended in, "" for none
    coords,    \* the point cloud: a sequence of rows <<x, y, z>>
    mass,      \* the weight vector
    result,    \* the RotationCurveResult, NoResult before it exists
    masks,     \* inner_mask and outer_mask of the last analysis
    config,    \* the SimulationConfig
    seeds,     \* MultiThreadRNSE.seeds
    source,    \* rnse_core.rnse_run: the lines it returns for each seed
    axis,      \* the loop index of run, counted from 1
    dims,      \* the coordinate sequences of the axes done
    mass_accum,\* the mass proxy, None before the first axis is done
    last,      \* the last axis transformed: its raw signal, peak and divisor
    clock,     \* the wall clock, as datetime.now() reads it
    audit,     \* the AuditLog: metadata, entries, digest_sha256
    history,   \* the calls made on the ledger so far, with what they returned
    reference, \* the reference digest of the verification protocol
    execution  \* 1 in the publishing execution of the suite, 2 in the verifying

analysisVars == <<coords, mass, result, masks>>
runVars == <<config, seeds, source, axis, dims, mass_accum, last>>
ledgerVars == <<clock, audit, history, reference, execution>>
vars == <<pc, exc, coords, mass, result, masks, config, seeds, source, axis,
          dims, mass_accum, last, clock, audit, history, reference, execution>>

\* AuditMetadata(test_name="galaxy_formation_v0.74", timestamp=now)
Metadata(now, seed) ==
    [test_name |-> "galaxy_formation_v0.74", timestamp |-> now,
     git_hash |-> "MANUAL_RUN", seed |-> seed, particle_count |-> 10000]

\* AuditLog(metadata)
NewAuditLog(m) == [metadata |-> m, entries |-> <<>>, digest_sha256 |-> NoDigest]

LedgerIdle ==
    /\ clock = 0
    /\ audit = NewAuditLog(Metadata(0, <<0, 0, 0, 0, 0>>))
    /\ history = <<>>
    /\ reference = NoDigest
    /\ execution = 0

NoConfig == [n_particles |-> 0, scale |-> 0, threads |-> 0, coupling |-> 5,
             rng_seed |-> <<0, 0, 0, 0, 0>>]

RunIdle ==
    /\ config = NoConfig
    /\ seeds = <<>>
    /\ source = <<>>
    /\ axis = 0
    /\ dims = <<>>
    /\ mass_accum = <<>>
    /\ last = NoAxis

(* ------------------ analysis of a drawn point cloud ------------------- *)
\* rows of the drawn clouds, on the fixed-point grid
SamplePoints ==
    { <<0, 0, 0>>, <<5, 0, 0>>, <<9, 0, 0>>, <<20, 0, 0>>, <<39, 0, 0>>,
      <<0, -3, 4>> }
\* the drawn weight vectors of n particles
Weights(n) == {[i \in 1..n |-> 1], [i \in 1..n |-> 1 + (i % 2)]}

Clouds == UNION {[1..n -> SamplePoints] : n \in 0..MaxParticles}

InitAnalyze ==
    /\ pc = "analyze"
    /\ exc = ""
    /\ coords \in Clouds
    /\ mass \in Weights(Len(coords))
    /\ result = NoResult
    /\ masks = NoMasks
    /\ RunIdle
    /\ LedgerIdle

AnalyzeTo(next) ==
    /\ pc = "analyze"
    /\ LET out == AnalyzeRotationCurve(coords, mass)
       IN /\ exc' = out.exc
          /\ result' = out.result
          /\ masks' = out.masks
          /\ pc' = IF out.exc = "" THEN next ELSE "raised"
    /\ UNCHANGED <<coords, mass>>
    /\ UNCHANGED runVars
    /\ UNCHANGED ledgerVars

Analyze == AnalyzeTo("returned")

NextAnalyze == Analyze

SpecAnalyze == InitAnalyze /\ [][NextAnalyze]_vars

(* ------------------------ claims on the analysis ---------------------- *)
\* the particles whose radius equals the median
TiesAtMedian(cloud) ==
    LET r == Radius(cloud) IN {i \in DOMAIN r : 2 * r[i] = Median2(r)}

\* an inner or outer partition of the cloud is empty, or it has fewer than
\* two particles
EmptyPartition(cloud) ==
    \/ Len(cloud) < 2
    \/ LET r == Radius(cloud)
       IN \/ ~ \E i \in DOMAIN r : 2 * r[i] < Median2(r)
          \/ ~ \E i \in DOMAIN r : 2 * r[i] > Median2(r)

AnalysisEnded == pc \in {"returned", "raised"}

\* C5: on a cloud with an empty inner or outer partition (or fewer than two
\* particles) the analysis ends in an InsufficientDataError and returns no
\* result.
C5_InsufficientDataError ==
    (AnalysisEnded /\ EmptyPartition(coords))
        => (pc = "raised" /\ exc = "InsufficientDataError" /\ result = NoResult)

\* C6 as claimed: the label is exactly "FLAT" below 5.0, "MILD DECLINE" from
\* 5.0 to below 20.0, and "STEEP DECLINE" from 20.0.
C6_LabelsAsClaimed ==
    pc = "returned" =>
        LET d == result.velocity_drop_percent
        IN result.interpretation =
             IF d.num < 5 * d.den THEN "FLAT"
             ELSE IF d.num < 20 * d.den THEN "MILD DECLINE"
             ELSE "STEEP DECLINE"

\* C6 amended: the label is "FLAT (matches Dark Matter signature)" when
\* drop < 5.0, "MILD DECLINE" when 5.0 <= drop < 20.0 and
\* "STEEP DECLINE (Keplerian)" when drop >= 20.0: one label for every drop.
C6_Labels ==
    pc = "returned" =>
        LET d == result.velocity_drop_percent
        IN /\ d.den > 0
           /\ result.interpretation =
                IF d.num < 5 * d.den THEN "FLAT (matches Dark Matter signature)"
                ELSE IF d.num < 20 * d.den THEN "MILD DECLINE"
                ELSE "STEEP DECLINE (Keplerian)"

\* a result whose drop is exactly 5.0, labelled "MILD DECLINE"
C6_Witness ==
    /\ pc = "returned"
    /\ result.velocity_drop_percent.num = 5 * result.velocity_drop_percent.den
    /\ result.interpretation = "MILD DECLINE"

\* C7: the inner and outer sets are disjoint, a particle at the median is in
\* neither and enters no inner or outer aggregate, and inner, outer and ties
\* together count every particle.
C7_Partition ==
    (AnalysisEnded /\ Len(coords) >= 2) =>
        LET r == Radius(coords)
            v == VMag(coords)
            ties == TiesAtMedian(coords)
        IN /\ masks.inner \cap masks.outer = {}
           /\ ties \cap (masks.inner \cup masks.outer) = {}
           /\ Cardinality(masks.inner) + Cardinality(masks.outer)
                + Cardinality(ties) = Len(coords)
           /\ pc = "returned" =>
                /\ result.total_particles = Len(coords)
                /\ result.inner_velocity = MeanOver(v, DOMAIN r \ (ties \cup masks.outer))
                /\ result.outer_velocity = MeanOver(v, DOMAIN r \ (ties \cup masks.inner))
                /\ result.inner_v_stddev = StdOver(v, DOMAIN r \ (ties \cup masks.outer))
                /\ result.outer_v_stddev = StdOver(v, DOMAIN r \ (ties \cup masks.inner))
                /\ \A i \in ties : result.inner_radius < r[i] /\ r[i] < result.outer_radius

\* a returned analysis of four particles, two of them at the median
C7_Witness ==
    /\ pc = "returned"
    /\ Len(coords) = 4
    /\ Cardinality(TiesAtMedian(coords)) = 2
    /\ masks.inner # {}
    /\ masks.outer # {}

(* ------------------------- the run of the axes ------------------------ *)
\* the loop body with the mass proxy stored by every axis, not by axis 0 only
RunAxisEveryMass ==
    /\ pc = "run"
    /\ axis \in 1..Len(seeds)
    /\ LET lines == source[seeds[axis]]
           err == ParseError(lines)
       IN IF err # "" \/ Len(lines) = 0
          THEN /\ pc' = "raised"
               /\ exc' = IF err # "" THEN err ELSE "ValueError"
               /\ UNCHANGED <<axis, dims, mass_accum, last>>
          ELSE LET raw == [j \in DOMAIN lines |-> lines[j].x]
                   acc == Accretion(raw, config.scale)
               IN /\ dims' = Append(dims, acc.arr)
                  /\ mass_accum' = [j \in DOMAIN lines |-> lines[j].C]
                  /\ last' = [raw |-> raw, peak |-> acc.peak,
                              max_val |-> acc.max_val, unit |-> acc.unit]
                  /\ axis' = axis + 1
                  /\ pc' = IF axis = Len(seeds) THEN "stack" ELSE "run"
                  /\ exc' = exc
    /\ UNCHANGED <<config, seeds, source>>
    /\ UNCHANGED analysisVars
    /\ UNCHANGED ledgerVars

\* one iteration of the loop of run: ask the generator for the lines of the
\* axis seed, parse them, transform them, keep the mass proxy of axis 0
RunAxis ==
    /\ pc = "run"
    /\ axis \in 1..Len(seeds)
    /\ LET lines == source[seeds[axis]]
           err == ParseError(lines)
       IN IF err # "" \/ Len(lines) = 0
          THEN \* json.loads or data["x"] fails; np.max of an empty array fails
               /\ pc' = "raised"
               /\ exc' = IF err # "" THEN err ELSE "ValueError"
               /\ UNCHANGED <<axis, dims, mass_accum, last>>
          ELSE LET raw == [j \in DOMAIN lines |-> lines[j].x]
                   acc == Accretion(raw, config.scale)
               IN /\ dims' = Append(dims, acc.arr)
                  /\ mass_accum' = IF axis = 1
                                   THEN [j \in DOMAIN lines |-> lines[j].C]
                                   ELSE mass_accum
                  /\ last' = [raw |-> raw, peak |-> acc.peak,
                              max_val |-> acc.max_val, unit |-> acc.unit]
                  /\ axis' = axis + 1
                  /\ pc' = IF axis = Len(seeds) THEN "stack" ELSE "run"
                  /\ exc' = exc
    /\ UNCHANGED <<config, seeds, source>>
    /\ UNCHANGED analysisVars
    /\ UNCHANGED ledgerVars

\* np.column_stack(dims) and the return of (coords, mass_accum)
RunStackTo(next) ==
    /\ pc = "stack"
    /\ IF \E k \in DOMAIN dims : Len(dims[k]) # Len(dims[1])
       THEN /\ pc' = "raised"
            /\ exc' = "ValueError"
            /\ UNCHANGED <<coords, mass>>
       ELSE /\ pc' = next
            /\ exc' = exc
            /\ coords' = ColumnStack(dims)
            /\ mass' = mass_accum
    /\ UNCHANGED <<result, masks>>
    /\ UNCHANGED runVars
    /\ UNCHANGED ledgerVars

RunStack == RunStackTo("returned")

NextRun == RunAxis \/ RunStack

\* 0x5EEDBEEFCAFE1234, the default rng_seed
DefaultSeed == <<4660, 51966, 48879, 24301, 0>>
\* the default seed, 2^64 - 0x2001, 2^64 - 0x2000 and 2^64 - 1
SampleSeeds ==
    { DefaultSeed, <<57343, 65535, 65535, 65535, 0>>,
      <<57344, 65535, 65535, 65535, 0>>, <<65535, 65535, 65535, 65535, 0>> }

Record(x, c) == [kind |-> "record", x |-> x, C |-> c]
NotJson == [kind |-> "not_json", x |-> 0, C |-> 0]
NoX == [kind |-> "no_x", x |-> 0, C |-> 0]

\* the samples x - 0.5 of a single-axis run, in ticks
AxisDeviations == {-1, 0, 1, 3}
Scales == {1, 100}

InitRunWith(cfg, outputs) ==
    /\ pc = "run"
    /\ exc = ""
    /\ coords = <<>>
    /\ mass = <<>>
    /\ result = NoResult
    /\ masks = NoMasks
    /\ config = cfg
    /\ seeds = AxisSeeds(cfg)
    /\ source \in [Range(AxisSeeds(cfg)) -> outputs]
    /\ axis = 1
    /\ dims = <<>>
    /\ mass_accum = <<>>
    /\ last = NoAxis
    /\ LedgerIdle

\* a run of one axis on a generator that keeps its contract
InitAxis ==
    \E n \in 1..MaxAxisParticles, sc \in Scales :
        InitRunWith([n_particles |-> n, scale |-> sc, threads |-> 1,
                     coupling |-> 5, rng_seed |-> DefaultSeed],
                    {[j \in 1..n |-> Record(d[j], 1)] :
                        d \in [1..n -> AxisDeviations]})

SpecAxis == InitAxis /\ [][NextRun]_vars

\* the lines a generator may return in a three-axis run: any number of
\* records up to one more than asked for, or records followed by a line that
\* does not parse (what follows the first such line is never read)
SampleLines == {Record(0, 1), Record(3, 2)}
GoodOutputs(n) == UNION {[1..len -> SampleLines] : len \in 0..n}
Outputs(n) ==
    GoodOutputs(n + 1)
        \cup {Append(o, bad) : o \in GoodOutputs(n), bad \in {NotJson, NoX}}

InitRun ==
    \E n \in 1..MaxRunParticles, sd \in SampleSeeds :
        InitRunWith([n_particles |-> n, scale |-> 100, threads |-> 3,
                     coupling |-> 5, rng_seed |-> sd],
                    Outputs(n))

SpecRun == InitRun /\ [][NextRun]_vars

\* a three-axis run on a generator that returns, for every axis, the records
\* asked for or one fewer
CloudLines == {Record(0, 1), Record(3, 2), Record(-1, 3)}
CloudOutputs(n) == UNION {[1..len -> CloudLines] : len \in (n - 1)..n}

InitCloud ==
    \E n \in 1..MaxCloudParticles :
        InitRunWith([n_particles |-> n, scale |-> 100, threads |-> 3,
                     coupling |-> 5, rng_seed |-> DefaultSeed],
                    CloudOutputs(n))

SpecCloud == InitCloud /\ [][NextRun]_vars

(* --------------------------- claims on the run ------------------------ *)
AxisDone == last.unit # "none"

\* C8 as claimed: if every raw primary value of an axis is within epsilon of
\* 0.5, every coordinate of the axis is within epsilon of zero.
C8_DegenerateAsClaimed ==
    (AxisDone /\ \A j \in DOMAIN last.raw : Abs(last.raw[j]) < EpsilonTicks)
        => \A j \in DOMAIN dims[1] :
              LET c == dims[1][j]
              IN IF c.unit = "tick" THEN Abs(c.num) <= EpsilonTicks * c.den
                 ELSE Abs(c.num) <= (EpsilonTicks * c.den) \div TicksPerUnit

\* C8 amended: the divisor of the rescaling is never zero; if the peak of the
\* cumulative sum is below epsilon the divisor is 1.0 and every coordinate is
\* cumulative[i] * scale, of magnitude at most epsilon * scale; if every raw
\* primary value is exactly 0.5 every coordinate is zero.
C8_Degenerate ==
    AxisDone =>
        /\ last.max_val > 0
        /\ \A j \in DOMAIN dims[1] : dims[1][j].den > 0
        /\ last.peak < EpsilonTicks =>
              /\ last.unit = "tick" /\ last.max_val = 1
              /\ \A j \in DOMAIN dims[1] :
                    /\ dims[1][j].unit = "tick"
                    /\ dims[1][j].den = 1
                    /\ dims[1][j].num = CumSum(last.raw, j) * config.scale
                    /\ Abs(dims[1][j].num) <= EpsilonTicks * config.scale
        /\ (\A j \in DOMAIN last.raw : last.raw[j] = 0) =>
              \A j \in DOMAIN dims[1] : dims[1][j].num = 0

\* an axis of three samples, all 0.5, transformed at scale 100
C8_Witness ==
    /\ AxisDone
    /\ last.raw = <<0, 0, 0>>
    /\ config.scale = 100
    /\ last.max_val = 1
    /\ \A j \in DOMAIN dims[1] : dims[1][j].num = 0

RunEnded == pc \in {"returned", "raised"}

\* C9: the per-axis seeds handed to the generator are pairwise distinct, each
\* lies inside the uint64 range, and each is base_seed + axis_index * 0x1000.
C9_SeedsInRange ==
    /\ \A i \in DOMAIN seeds : seeds[i][5] = 0
    /\ \A i, k \in DOMAIN seeds : i # k => seeds[i] # seeds[k]
    /\ \A i \in DOMAIN seeds :
          seeds[i] = AddSmall(config.rng_seed, (i - 1) * AxisOffset)

\* the generator broke its contract on some axis: a wrong number of records
\* or a line that does not parse
BadSource ==
    \E i \in DOMAIN seeds :
        \/ Len(source[seeds[i]]) # config.n_particles
        \/ ParseError(source[seeds[i]]) # ""

\* C10: on a generator that returns a wrong number of records or a malformed
\* record, run ends in a GenerationError; it never returns a point cloud
\* whose row count differs from the configured particle count.
C10_GenerationError ==
    /\ (RunEnded /\ BadSource) => (pc = "raised" /\ exc = "GenerationError")
    /\ pc = "returned" => Len(coords) = config.n_particles

\* what the generator returned for axis k (counted from 1): its primary
\* samples, centred, and its complexity values
AxisSignal(k) == [j \in DOMAIN source[seeds[k]] |-> source[seeds[k]][j].x]
AxisComplexity(k) == [j \in DOMAIN source[seeds[k]] |-> source[seeds[k]][j].C]
\* the derivation of axis k taken alone, from its own stream and the scale
AxisAlone(k) == Accretion(AxisSignal(k), config.scale).arr

Call(op, digest, changed, kept) ==
    [op |-> op, digest |-> digest, changed |-> changed, kept |-> kept, at |-> clock]

Keys == {"simulation_config", "rotation_curve"}
Values == {ConfigRef, IntValue(1), IntValue(2)}

\* audit.add_result(key, value)
AddResult ==
    /\ pc = "ledger"
    /\ Len(history) < MaxOps
    /\ \E key \in Keys, value \in Values :
          audit' = [audit EXCEPT !.entries = AddResultTo(@, key, value, clock)]
    /\ history' = Append(history, Call("add_result", NoDigest, TRUE, TRUE))
    /\ UNCHANGED <<pc, exc, clock, reference, execution>>
    /\ UNCHANGED analysisVars
    /\ UNCHANGED runVars

\* audit.finalize()
FinalizeCall ==
    /\ pc = "ledger"
    /\ Len(history) < MaxOps
    /\ audit' = Finalize(audit, config)
    /\ history' = Append(history,
                         Call("finalize", audit'.digest_sha256, FALSE,
                              audit'.metadata = audit.metadata
                                /\ audit'.entries = audit.entries))
    /\ UNCHANGED <<pc, exc, clock, reference, execution>>
    /\ UNCHANGED analysisVars
    /\ UNCHANGED runVars

\* the caller assigns config.scale, an attribute of the object whose __dict__
\* it may have logged
SetScale ==
    /\ pc = "ledger"
    /\ Len(history) < MaxOps
    /\ \E sc \in Scales :
          /\ sc # config.scale
          /\ config' = [config EXCEPT !.scale = sc]
    /\ history' = Append(history,
                         Call("set_scale", NoDigest,
                              Observed(audit.entries, config')
                                # Observed(audit.entries, config), TRUE))
    /\ UNCHANGED <<pc, exc, clock, audit, reference, execution>>
    /\ UNCHANGED analysisVars
    /\ UNCHANGED <<seeds, source, axis, dims, mass_accum, last>>

\* time passes
Tick ==
    /\ clock < MaxClock
    /\ clock' = clock + 1
    /\ UNCHANGED <<pc, exc, audit, history, reference, execution>>
    /\ UNCHANGED analysisVars
    /\ UNCHANGED runVars

DefaultConfig(n, sc, sd) ==
    [n_particles |-> n, scale |-> sc, threads |-> 3, coupling |-> 5, rng_seed |-> sd]

InitLedger ==
    /\ pc = "ledger"
    /\ exc = ""
    /\ coords = <<>>
    /\ mass = <<>>
    /\ result = NoResult
    /\ masks = NoMasks
    /\ config = DefaultConfig(2, 100, DefaultSeed)
    /\ seeds = AxisSeeds(config)
    /\ source = <<>>
    /\ axis = 0
    /\ dims = <<>>
    /\ mass_accum = <<>>
    /\ last = NoAxis
    /\ clock = 0
    /\ audit = NewAuditLog(Metadata(0, DefaultSeed))
    /\ history = <<>>
    /\ reference = NoDigest
    /\ execution = 0

NextLedger == AddResult \/ FinalizeCall \/ SetScale \/ Tick

SpecLedger == InitLedger /\ [][NextLedger]_vars

(* -------------------------- claims on the ledger ---------------------- *)
\* C2: two consecutive calls of finalize return the same digest, and finalize
\* leaves the metadata and the entries of the ledger as they were.
C2_FinalizeIdempotent ==
    \A i \in DOMAIN history :
        history[i].op = "finalize" =>
            /\ history[i].kept
            /\ (i > 1 /\ history[i - 1].op = "finalize")
                  => history[i].digest = history[i - 1].digest

\* two consecutive calls of finalize, at different times, on a ledger that
\* holds an entry
C2_Witness ==
    \E i \in DOMAIN history :
        /\ i > 1
        /\ history[i].op = "finalize"
        /\ history[i - 1].op = "finalize"
        /\ history[i].at # history[i - 1].at
        /\ audit.entries # <<>>

\* C3: between two calls of finalize, one appended entry, or one change of the
\* value of an existing entry, makes the second digest differ from the first.
C3_DigestSensitive ==
    \A i \in DOMAIN history :
        (/\ i + 2 <= Len(history)
         /\ history[i].op = "finalize"
         /\ history[i + 2].op = "finalize"
         /\ history[i + 1].changed)
            => history[i + 2].digest # history[i].digest

\* finalize, a change of the value of a logged entry, finalize
C3_Witness ==
    \E i \in DOMAIN history :
        /\ i + 2 <= Len(history)
        /\ history[i].op = "finalize"
        /\ history[i + 1].op = "set_scale"
        /\ history[i + 1].changed
        /\ history[i + 2].op = "finalize"

\* the entries of the ledger as a reader sees them now
ObservedNow == Observed(audit.entries, config)

\* C4: the ledger is append-only: whatever is called, and whatever the caller
\* does to an object it passed as a value, every entry inserted stays at its
\* position with its key, value and timestamp, and the list grows by at most
\* one entry at its end.
C4_AppendOnly ==
    [][/\ Len(ObservedNow') \in {Len(ObservedNow), Len(ObservedNow) + 1}
       /\ \A k \in DOMAIN ObservedNow : ObservedNow'[k] = ObservedNow[k]]_vars

(* ------------------------------ run_full_suite ------------------------ *)
\* metadata = AuditMetadata(..., timestamp=now); audit = AuditLog(metadata);
\* config = SimulationConfig(...); sim = MultiThreadRNSE(config)
SuiteStart ==
    /\ pc = "suite"
    /\ audit' = NewAuditLog(Metadata(clock, DefaultSeed))
    /\ seeds' = AxisSeeds(config)
    /\ axis' = 1
    /\ dims' = <<>>
    /\ mass_accum' = <<>>
    /\ last' = NoAxis
    /\ pc' = "run"
    /\ UNCHANGED <<exc, config, source, clock, history, reference, execution>>
    /\ UNCHANGED analysisVars

\* coords, mass = sim.run(): the end of the loop
SuiteRunStack == RunStackTo("analyze")

\* result = sim.analyze_rotation_curve(coords, mass)
SuiteAnalyze == AnalyzeTo("log_config")

\* audit.add_result("simulation_config", config.__dict__)
SuiteLogConfig ==
    /\ pc = "log_config"
    /\ audit' = [audit EXCEPT
                   !.entries = AddResultTo(@, "simulation_config", ConfigRef, clock)]
    /\ pc' = "log_result"
    /\ UNCHANGED <<exc, clock, history, reference, execution>>
    /\ UNCHANGED analysisVars
    /\ UNCHANGED runVars

\* audit.add_result("rotation_curve", result.to_dict())
SuiteLogResult ==
    /\ pc = "log_result"
    /\ audit' = [audit EXCEPT
                   !.entries = AddResultTo(@, "rotation_curve", DictValue(result), clock)]
    /\ pc' = "finalize"
    /\ UNCHANGED <<exc, clock, history, reference, execution>>
    /\ UNCHANGED analysisVars
    /\ UNCHANGED runVars

\* digest = audit.finalize(), returned in the results package
SuiteFinalize ==
    /\ pc = "finalize"
    /\ audit' = Finalize(audit, config)
    /\ pc' = "done"
    /\ UNCHANGED <<exc, clock, history, reference, execution>>
    /\ UNCHANGED analysisVars
    /\ UNCHANGED runVars

\* create_publication_bundle writes the digest of its execution into the
\* verification protocol as the reference
Publish ==
    /\ pc = "done"
    /\ execution = 1
    /\ reference' = audit.digest_sha256
    /\ pc' = "published"
    /\ UNCHANGED <<exc, clock, audit, history, execution>>
    /\ UNCHANGED analysisVars
    /\ UNCHANGED runVars

\* step 2 of the protocol: the suite is executed again, on the same
\* parameters and the same generator, to compare its digest
Verify ==
    /\ pc = "published"
    /\ execution' = 2
    /\ pc' = "suite"
    /\ coords' = <<>>
    /\ mass' = <<>>
    /\ result' = NoResult
    /\ masks' = NoMasks
    /\ UNCHANGED <<exc, clock, audit, history, reference>>
    /\ UNCHANGED runVars

InitSuite ==
    /\ pc = "suite"
    /\ exc = ""
    /\ coords = <<>>
    /\ mass = <<>>
    /\ result = NoResult
    /\ masks = NoMasks
    /\ \E n \in 2..MaxSuiteParticles, sc \in Scales :
          config = DefaultConfig(n, sc, DefaultSeed)
    /\ seeds = <<>>
    /\ source \in [Range(AxisSeeds(config)) ->
                     [1..config.n_particles -> SampleLines]]
    /\ axis = 0
    /\ dims = <<>>
    /\ mass_accum = <<>>
    /\ last = NoAxis
    /\ clock = 0
    /\ audit = NewAuditLog(Metadata(0, DefaultSeed))
    /\ history = <<>>
    /\ reference = NoDigest
    /\ execution = 1

NextSuite ==
    \/ SuiteStart
    \/ RunAxis
    \/ SuiteRunStack
    \/ SuiteAnalyze
    \/ SuiteLogConfig
    \/ SuiteLogResult
    \/ SuiteFinalize
    \/ Publish
    \/ Verify
    \/ Tick

SpecSuite == InitSuite /\ [][NextSuite]_vars

(* --------------------------- claim on the suite ----------------------- *)
\* C1: on the same (base_seed, particle_count, scale) and the same
\* deterministic generator, a second execution of the suite returns the
\* digest of the first, whatever the clock read in either.
C1_SameDigest ==
    (execution = 2 /\ pc = "done") => audit.digest_sha256 = reference

=============================================================================
